---- MODULE Spec2Model ----
(***************************************************************************)
(* Model of the zupass proving queue (POST /pcds/prove, GET /pcds/status)  *)
(* and of the Telegram admission service (TelegramService): ticket-proof   *)
(* verification, join-request approval, membership-change handling and     *)
(* anonymous message forwarding.                                           *)
(***************************************************************************)
EXTENDS Integers, Sequences, FiniteSets, TLC

\* ------------------------------------------------------------------ bounds
NumArgs == 2
NumUsers == 2

\* ------------------------------------------------------------- variables
VARIABLES
  \* proving queue (ServerProvingContext)
  queue,          \* _provingContext.queue: sequence of ProveRequest
  stampStatus,    \* _provingContext.stampStatus: hash -> status ("NONE" = no entry)
  stampResult,    \* _provingContext.stampResult: hash -> serialized proof (NoResult = no entry)
  response,       \* the HTTP response written by the latest route handler
  proveCount,     \* history: how many times prove() was invoked per hash
  submitted,      \* history: the hashes in the order of their first submission, less the
                  \* leading ones whose job has settled
  \* Telegram service
  env,            \* process.env of the deployment: [kind, hasKey]
  events,         \* table telegram_bot_events: ticket_event_id -> row
  linkMenu,       \* this.fetchLinkMenu: the mode of the events menu, the chats shown it, and
                  \* the command named by the latest menu message of each chat
  verifications,  \* table telegram_bot_conversations: set of <<userId, chatId>>
  hv,             \* the handleVerification call in flight
  jr,             \* the chat_join_request handler in flight
  an,             \* the handleSendAnonymousMessage call in flight
  out,            \* outcome of the latest handler step: result and platform calls made
  watched,        \* the pairs whose history of approvals and grants is kept
  approvedSince,  \* history: pairs approved since their latest recorded verification
  granted,        \* history: pairs whose record a membership grant deleted, not re-verified since
  unjustified     \* history: records inserted by a run whose proof was not good for the pair

qvars == <<queue, stampStatus, stampResult, response, proveCount, submitted>>

tgvars == <<env, events, linkMenu, verifications, hv, jr, an, out, watched, approvedSince, granted, unjustified>>

vars == <<queue, stampStatus, stampResult, response, proveCount, submitted,
          env, events, linkMenu, verifications, hv, jr, an, out, watched, approvedSince, granted, unjustified>>

\* ======================================================================
\* Proving queue
\* ======================================================================
\* names of the supported proof packages a request may ask for
PcdTypes == {"semaphore-signature-pcd", "zk-eddsa-event-ticket-pcd"}

PcdTypeIndex(t) == IF t = "semaphore-signature-pcd" THEN 0 ELSE 1
Args == 1..NumArgs

\* ProveRequest {pcdType, args}
ProveRequests == [pcdType : PcdTypes, args : Args]

\* hashRequest: deterministic content hash of the full request
hashRequest(r) == PcdTypeIndex(r.pcdType) * NumArgs + r.args

Hashes == {hashRequest(r) : r \in ProveRequests}

StampPCDStatus == {"QUEUED", "PROVING", "COMPLETE", "ERROR"}

NoResponse == [op |-> "none"]

\* the serialized proof a successful computation stores for a request
SerializedPCD(r) == [present |-> TRUE, serializedPCD |-> <<r.pcdType, r.args>>]

\* stampResult.get(hash) of a hash without an entry
NoResult == [present |-> FALSE]

\* a sequence of hashes less its leading ones whose job has settled
RECURSIVE DropSettled(_, _)
DropSettled(hashes, status) ==
  IF hashes = <<>> \/ status[Head(hashes)] \notin {"COMPLETE", "ERROR"}
    THEN hashes
    ELSE DropSettled(Tail(hashes), status)

InitQueue ==
  /\ queue = <<>>
  /\ stampStatus = [h \in Hashes |-> "NONE"]
  /\ stampResult = [h \in Hashes |-> NoResult]
  /\ response = NoResponse
  /\ proveCount = [h \in Hashes |-> 0]
  /\ submitted = <<>>

\* POST /pcds/prove without the stampStatus.has(hash) test
SubmitNoDedup(r) ==
  LET hash == hashRequest(r)
      q1 == Append(queue, r)
      st == IF Len(q1) = 1 THEN "PROVING" ELSE "QUEUED"
  IN /\ queue' = q1
     /\ stampStatus' = [stampStatus EXCEPT ![hash] = st]
     /\ proveCount' = [proveCount EXCEPT ![hash] = IF st = "PROVING" THEN @ + 1 ELSE @]
     /\ submitted' = DropSettled(IF stampStatus[hash] = "NONE" THEN Append(submitted, hash)
                                  ELSE submitted, stampStatus')
     /\ response' = [op |-> "prove", req |-> r, http |-> 200,
                     pcdType |-> r.pcdType, hash |-> hash, status |-> st]
     /\ UNCHANGED <<stampResult, tgvars>>

\* POST /pcds/prove that starts proving whenever the queue is non-empty
SubmitAlwaysProving(r) ==
  LET hash == hashRequest(r)
      isNew == stampStatus[hash] = "NONE"
      q1 == IF isNew THEN Append(queue, r) ELSE queue
      st == IF ~isNew THEN stampStatus[hash] ELSE "PROVING"
  IN /\ queue' = q1
     /\ stampStatus' = [stampStatus EXCEPT ![hash] = st]
     /\ proveCount' = [proveCount EXCEPT ![hash] = IF isNew THEN @ + 1 ELSE @]
     /\ submitted' = DropSettled(IF isNew THEN Append(submitted, hash) ELSE submitted,
                                  stampStatus')
     /\ response' = [op |-> "prove", req |-> r, http |-> 200,
                     pcdType |-> r.pcdType, hash |-> hash, status |-> st]
     /\ UNCHANGED <<stampResult, tgvars>>

\* POST /pcds/prove that never starts a computation
SubmitAlwaysQueued(r) ==
  LET hash == hashRequest(r)
      isNew == stampStatus[hash] = "NONE"
      st == IF ~isNew THEN stampStatus[hash] ELSE "QUEUED"
  IN /\ queue' = IF isNew THEN Append(queue, r) ELSE queue
     /\ stampStatus' = [stampStatus EXCEPT ![hash] = st]
     /\ UNCHANGED proveCount
     /\ submitted' = DropSettled(IF isNew THEN Append(submitted, hash) ELSE submitted,
                                  stampStatus')
     /\ response' = [op |-> "prove", req |-> r, http |-> 200,
                     pcdType |-> r.pcdType, hash |-> hash, status |-> st]
     /\ UNCHANGED <<stampResult, tgvars>>

\* POST /pcds/prove
Submit(r) ==
  LET hash == hashRequest(r)
      isNew == stampStatus[hash] = "NONE"
      q1 == IF isNew THEN Append(queue, r) ELSE queue
      starts == isNew /\ Len(q1) = 1
      st == IF ~isNew THEN stampStatus[hash]
            ELSE IF Len(q1) = 1 THEN "PROVING" ELSE "QUEUED"
  IN /\ queue' = q1
     /\ stampStatus' = [stampStatus EXCEPT ![hash] = st]
     /\ proveCount' = [proveCount EXCEPT ![hash] = IF starts THEN @ + 1 ELSE @]
     /\ submitted' = DropSettled(IF isNew THEN Append(submitted, hash) ELSE submitted,
                                  stampStatus')
     /\ response' = [op |-> "prove", req |-> r, http |-> 200,
                     pcdType |-> r.pcdType, hash |-> hash, status |-> st]
     /\ UNCHANGED <<stampResult, tgvars>>

\* prove(): the computation of the job at the head of the queue settles
\* (ok = TRUE: COMPLETE with a stored result, ok = FALSE: ERROR), the job
\* leaves the queue and the next queued job, if any, starts proving.
ProveSettles(ok) ==
  /\ Len(queue) > 0
  /\ stampStatus[hashRequest(Head(queue))] = "PROVING"
  /\ LET cur == Head(queue)
         currentHash == hashRequest(cur)
         rest == Tail(queue)
         st1 == [stampStatus EXCEPT ![currentHash] = IF ok THEN "COMPLETE" ELSE "ERROR"]
     IN /\ stampResult' = IF ok THEN [stampResult EXCEPT ![currentHash] = SerializedPCD(cur)]
                          ELSE stampResult
        /\ queue' = rest
        /\ IF Len(rest) > 0
             THEN LET topHash == hashRequest(Head(rest))
                  IN /\ stampStatus' = [st1 EXCEPT ![topHash] = "PROVING"]
                     /\ proveCount' = [proveCount EXCEPT ![topHash] = @ + 1]
             ELSE /\ stampStatus' = st1
                  /\ UNCHANGED proveCount
  /\ submitted' = DropSettled(submitted, stampStatus')
  /\ UNCHANGED <<response, tgvars>>

ProveComplete == ProveSettles(TRUE)

ProveError == ProveSettles(FALSE)

\* GET /pcds/status/:hash without the branch of ERROR
PollNoErrorBranch(hash) ==
  /\ response' =
       IF stampStatus[hash] = "COMPLETE"
         THEN [op |-> "status", hash |-> hash, http |-> 200, status |-> "COMPLETE",
               proof |-> IF stampResult[hash].present
                         THEN stampResult[hash].serializedPCD ELSE <<>>]
       ELSE [op |-> "status", hash |-> hash, http |-> 400,
             status |-> IF stampStatus[hash] = "NONE" THEN "undefined" ELSE stampStatus[hash]]
  /\ UNCHANGED <<queue, stampStatus, stampResult, proveCount, submitted, tgvars>>

\* GET /pcds/status/:hash that reports a hash without a job as QUEUED
PollUnknownAsQueued(hash) ==
  /\ response' =
       IF stampStatus[hash] = "COMPLETE"
         THEN [op |-> "status", hash |-> hash, http |-> 200, status |-> "COMPLETE",
               proof |-> IF stampResult[hash].present
                         THEN stampResult[hash].serializedPCD ELSE <<>>]
       ELSE IF stampStatus[hash] = "ERROR"
         THEN [op |-> "status", hash |-> hash, http |-> 500, status |-> "ERROR"]
       ELSE [op |-> "status", hash |-> hash, http |-> 400,
             status |-> IF stampStatus[hash] = "NONE" THEN "QUEUED" ELSE stampStatus[hash]]
  /\ UNCHANGED <<queue, stampStatus, stampResult, proveCount, submitted, tgvars>>

\* GET /pcds/status/:hash
Poll(hash) ==
  /\ response' =
       IF stampStatus[hash] = "COMPLETE"
         THEN [op |-> "status", hash |-> hash, http |-> 200, status |-> "COMPLETE",
               proof |-> IF stampResult[hash].present
                         THEN stampResult[hash].serializedPCD ELSE <<>>]
       ELSE IF stampStatus[hash] = "ERROR"
         THEN [op |-> "status", hash |-> hash, http |-> 500, status |-> "ERROR"]
       ELSE [op |-> "status", hash |-> hash, http |-> 400,
             status |-> IF stampStatus[hash] = "NONE" THEN "undefined" ELSE stampStatus[hash]]
  /\ UNCHANGED <<queue, stampStatus, stampResult, proveCount, submitted, tgvars>>

\* ======================================================================
\* Telegram service: inputs and pure functions
\* ======================================================================
\* Telegram user ids (numbers)
UserIds == {7 * i : i \in 1..NumUsers}

\* Telegram chat ids
ChatIds == {100, 200}

\* message texts of anonymous sends
Messages == {"hello", "gm"}

\* Number.prototype.toString / BigInt.prototype.toString: decimal digits
RECURSIVE NumberToString(_)
NumberToString(n) == IF n < 10 THEN <<n>> ELSE Append(NumberToString(n \div 10), n % 10)

\* sha256.sha256(message): the leading hex digits of the digest
Sha256Hex(m) ==
  IF m = "hello"
    THEN <<2,12,15,2,4,13,11,10,5,15,11,0,10,3,0,14,2,6,14,8>>
    ELSE <<10,4,7,4,2,1,9,14,5,14,9,5,0,3,12,8,4,13,5,9>>

\* substring(0, 16)
HashPrefixLen == 16

\* least-significant-first decimal digits of le * k + carry
RECURSIVE MulAdd(_, _, _)
MulAdd(le, k, carry) ==
  IF le = <<>>
    THEN IF carry = 0 THEN <<>> ELSE <<carry % 10>> \o MulAdd(<<>>, k, carry \div 10)
    ELSE LET v == Head(le) * k + carry
         IN <<v % 10>> \o MulAdd(Tail(le), k, v \div 10)

\* BigInt("0x" + hex), as least-significant-first decimal digits
RECURSIVE BigIntOfHex(_)
BigIntOfHex(hex) ==
  IF hex = <<>> THEN <<>>
  ELSE MulAdd(BigIntOfHex(SubSeq(hex, 1, Len(hex) - 1)), 16, hex[Len(hex)])

RECURSIVE Reverse(_)
Reverse(sq) == IF sq = <<>> THEN <<>> ELSE Append(Reverse(Tail(sq)), Head(sq))

\* bigint.toString()
BigIntToString(le) == IF le = <<>> THEN <<0>> ELSE Reverse(le)

\* getMessageWatermark(message).toString() with the hash cut to n hex digits
MessageWatermarkOfLen(message, n) ==
  BigIntToString(BigIntOfHex(SubSeq(Sha256Hex(message), 1, n)))

\* getMessageWatermark(message).toString(), tabulated per message
MessageWatermarks == [m \in Messages |-> MessageWatermarkOfLen(m, HashPrefixLen)]

\* a digest that does not depend on the message
getMessageWatermarkFixed(message) == MessageWatermarks["hello"]

\* getMessageWatermark(message).toString()
getMessageWatermark(message) == MessageWatermarks[message]

\* ALLOWED_EVENT_IDS
ALLOWED_EVENT_IDS ==
  << [eventId |-> "3fa6164c-4785-11ee-8178-763dbf30819c", name |-> "SRW Staging"],
     [eventId |-> "264b2536-479c-11ee-8153-de1f187f7393", name |-> "SRW Prod"],
     [eventId |-> "b03bca82-2d63-11ee-9929-0e084c48e15f", name |-> "ProgCrypto (Internal Test)"],
     [eventId |-> "ae23e4b4-2d63-11ee-9929-0e084c48e15f", name |-> "AW (Internal Test)"] >>

\* eventIdIsAllowed for a present event id (an absent one throws, see VerifyPCD)
eventIdIsAllowed(eventId) ==
  \E i \in 1..Len(ALLOWED_EVENT_IDS) : ALLOWED_EVENT_IDS[i].eventId = eventId

\* an absent (undefined) event id
NoEventId == ""

\* event ids that occur in tickets and in telegram_bot_events
EventIds ==
  { "3fa6164c-4785-11ee-8178-763dbf30819c", "264b2536-479c-11ee-8153-de1f187f7393",
    "evt-local", "evt-999" }

\* getEdDSAPublicKey(process.env.SERVER_EDDSA_PRIVATE_KEY)
TICKETING_PUBKEY == <<"pk0", "pk1">>

Signers == {<<"pk0", "pk1">>, <<"pk0", "zz">>, <<"zz", "pk1">>}

\* an absent watermark
NoWatermark == <<>>

Watermarks ==
  {NumberToString(u) : u \in UserIds} \cup {getMessageWatermark(m) : m \in Messages}
    \cup {NoWatermark}

\* a serialized ZKEdDSAEventTicketPCD as the routes receive it: whether it
\* deserializes, whether the ZK proof verifies, and the claim it carries
Proofs ==
  [deser : {TRUE}, valid : BOOLEAN, signer : Signers,
   eventId : EventIds \cup {NoEventId}, watermark : Watermarks]
  \cup
  [deser : {FALSE}, valid : {FALSE}, signer : {<<"zz", "pk1">>},
   eventId : {NoEventId}, watermark : {NoWatermark}]

\* proofs presented to the join flow in the admission specification
JoinProofs ==
  {p \in Proofs : /\ p.signer \in {TICKETING_PUBKEY, <<"pk0", "zz">>}
                  /\ p.watermark \in {NumberToString(u) : u \in UserIds} \cup {NoWatermark}}

\* the deployments: isLocalServer(), PASSPORT_SERVER_URL containing "staging",
\* anything else; and whether SERVER_EDDSA_PRIVATE_KEY is set
Envs ==
  [kind : {"local", "staging", "production"}, hasKey : {TRUE}]
    \cup {[kind |-> "production", hasKey |-> FALSE]}

EnforcingEnvs == {e \in Envs : e.hasKey /\ e.kind # "local"}

\* signer comparison that looks at the first coordinate only
SignerMatchesFirstOnly(signer) == signer[1] = TICKETING_PUBKEY[1]

\* pcd.claim.signer[0] === TICKETING_PUBKEY[0] && pcd.claim.signer[1] === TICKETING_PUBKEY[1]
SignerMatches(signer) ==
  signer[1] = TICKETING_PUBKEY[1] /\ signer[2] = TICKETING_PUBKEY[2]

\* event check that lets every event through in every deployment
EventIdMatchAlways(e, eventId) == TRUE

\* eventIdMatch of verifyZKEdDSAEventTicketPCD, for a present event id
EventIdMatch(e, eventId) ==
  IF e.kind = "local" THEN TRUE ELSE eventIdIsAllowed(eventId)

\* verifier that does not look at the result of the proof's verification
VerifyPCDSkipsProof(e, p) ==
  IF ~p.deser THEN "DeserializationError"
  ELSE IF ~e.hasKey THEN "MissingServerKey"
  ELSE IF e.kind # "local" /\ p.eventId = NoEventId THEN "NoEventIdFound"
  ELSE IF EventIdMatch(e, p.eventId) /\ SignerMatches(p.signer)
    THEN "pcd"
    ELSE "null"

\* verifyZKEdDSAEventTicketPCD: "pcd" when the ticket is returned, "null" when
\* it is found invalid, otherwise the error thrown
VerifyPCD(e, p) ==
  IF ~p.deser THEN "DeserializationError"
  ELSE IF ~e.hasKey THEN "MissingServerKey"
  ELSE IF e.kind # "local" /\ p.eventId = NoEventId THEN "NoEventIdFound"
  ELSE IF p.valid /\ EventIdMatch(e, p.eventId) /\ SignerMatches(p.signer)
    THEN "pcd"
    ELSE "null"

\* fetchTelegramEventByEventId: the row of the event, if any
NoRow == [present |-> FALSE, telegram_chat_id |-> 0, anon_chat_id |-> 0]

Row(chatId, anonChatId) ==
  [present |-> TRUE, telegram_chat_id |-> chatId, anon_chat_id |-> anonChatId]

fetchTelegramEventByEventId(eventId) ==
  IF eventId \in EventIds THEN events[eventId] ELSE NoRow

\* chat types the platform reports
ChatTypes == {"private", "group", "supergroup", "channel"}

\* chatIsGroup
chatIsGroup(type) == type \in {"channel", "group", "supergroup"}

\* outcomes of bot.api.getChat: the call fails, or reports a chat type
GetChatResults == ChatTypes \cup {"fails"}

\* watermark test of the join flow that is left out
JoinWatermarkMismatchNever(telegramUserId, watermark) == FALSE

\* telegramUserId.toString() !== watermark.toString()
JoinWatermarkMismatch(telegramUserId, watermark) ==
  NumberToString(telegramUserId) # watermark

\* the checks of handleVerification up to and including bot.api.getChat:
\* "proceed" or the error thrown
HandleVerificationChecks(p, telegramUserId, chat) ==
  LET v == VerifyPCD(env, p)
      event == fetchTelegramEventByEventId(p.eventId)
  IN IF v \notin {"pcd", "null"} THEN v
     ELSE IF v = "null" THEN "CouldNotVerifyPCD"
     ELSE IF p.watermark = NoWatermark THEN "NoWatermark"
     ELSE IF JoinWatermarkMismatch(telegramUserId, p.watermark) THEN "WatermarkMismatch"
     ELSE IF p.eventId = NoEventId THEN "TicketWithoutEventId"
     ELSE IF ~event.present THEN "NoMatchingChat"
     ELSE IF chat = "fails" THEN "PlatformError"
     ELSE IF ~chatIsGroup(chat) THEN "ChatTypeError"
     ELSE "proceed"

\* watermark test of the anonymous flow that is left out
AnonWatermarkMismatchNever(message, watermark) == FALSE

\* getMessageWatermark(message).toString() !== watermark.toString()
AnonWatermarkMismatch(message, watermark) ==
  getMessageWatermark(message) # watermark

\* the checks of the anonymous route without the test of anon_chat_id
SendAnonymousChecksAnyChannel(p, message, chat) ==
  LET v == VerifyPCD(env, p)
      event == fetchTelegramEventByEventId(p.eventId)
  IN IF v \notin {"pcd", "null"} THEN v
     ELSE IF v = "null" THEN "CouldNotVerifyPCD"
     ELSE IF p.eventId = NoEventId THEN "TicketWithoutEventId"
     ELSE IF p.watermark = NoWatermark THEN "NoWatermark"
     ELSE IF AnonWatermarkMismatch(message, p.watermark) THEN "WatermarkMismatch"
     ELSE IF ~event.present THEN "EventNotAvailable"
     ELSE IF chat = "fails" THEN "PlatformError"
     ELSE IF ~chatIsGroup(chat) THEN "ChatTypeError"
     ELSE "proceed"

\* the checks of handleSendAnonymousMessage up to and including bot.api.getChat
SendAnonymousChecks(p, message, chat) ==
  LET v == VerifyPCD(env, p)
      event == fetchTelegramEventByEventId(p.eventId)
  IN IF v \notin {"pcd", "null"} THEN v
     ELSE IF v = "null" THEN "CouldNotVerifyPCD"
     ELSE IF p.eventId = NoEventId THEN "TicketWithoutEventId"
     ELSE IF p.watermark = NoWatermark THEN "NoWatermark"
     ELSE IF AnonWatermarkMismatch(message, p.watermark) THEN "WatermarkMismatch"
     ELSE IF ~event.present THEN "EventNotAvailable"
     ELSE IF event.anon_chat_id = 0 THEN "NoAnonChannel"
     ELSE IF chat = "fails" THEN "PlatformError"
     ELSE IF ~chatIsGroup(chat) THEN "ChatTypeError"
     ELSE "proceed"

\* ======================================================================
\* Telegram service: state and handlers
\* ======================================================================
Idle == [pc |-> "idle"]

NoOut == [op |-> "none", arg |-> <<>>, res |-> "none", calls |-> <<>>, cause |-> "none"]

Pairs == UserIds \X ChatIds

\* telegram_bot_events as the service finds it: one event linked to a chat
\* with an anonymous topic, one event linked to a chat without
InitEventTables ==
  { [e \in EventIds |->
       IF e = "3fa6164c-4785-11ee-8178-763dbf30819c" THEN Row(100, 7)
       ELSE IF e = "evt-local" THEN Row(200, 0)
       ELSE NoRow] }

\* fetchLinkMenu as the constructor sets it: an empty MenuRange, and no chat
\* holding a menu message
NoLinkMenu == [mode |-> "none", chats |-> {}, options |-> [c \in ChatIds |-> "none"]]

NoPair == {{}}

\* the history is kept for one pair, any of them
OnePair == {{pr} : pr \in Pairs}

\* the pairs that a verification can record where the allow-list is enforced:
\* the chat is linked to an allowed event
AdmissionPairs ==
  {pr \in Pairs : \E t \in InitEventTables, e \in EventIds :
                     /\ eventIdIsAllowed(e)
                     /\ t[e].present
                     /\ t[e].telegram_chat_id = pr[2]}

OneAdmissionPair == {{pr} : pr \in AdmissionPairs}

InitTelegram(track, envs) ==
  /\ env \in envs
  /\ events \in InitEventTables
  /\ linkMenu = NoLinkMenu
  /\ verifications = {}
  /\ hv = Idle
  /\ jr = Idle
  /\ an = Idle
  /\ out = NoOut
  /\ watched \in track
  /\ approvedSince = {}
  /\ granted = {}
  /\ unjustified = {}

\* the Telegram service of a process that serves the proving routes only
InitTelegramUnused ==
  /\ env = [kind |-> "production", hasKey |-> TRUE]
  /\ events = [e \in EventIds |-> NoRow]
  /\ linkMenu = NoLinkMenu
  /\ verifications = {}
  /\ hv = Idle
  /\ jr = Idle
  /\ an = Idle
  /\ out = NoOut
  /\ watched = {}
  /\ approvedSince = {}
  /\ granted = {}
  /\ unjustified = {}

\* The first check of the design's verifier that a proof fails, in the
\* design's order (deserialization, structural validity, signer, event,
\* watermark), or "none": the event must be on the allow-list or, on a local
\* server, registered; the watermark must equal the expected one.
FirstFailure(p, expectedWatermark) ==
  IF ~p.deser THEN "DeserializationError"
  ELSE IF ~env.hasKey THEN "MissingServerKey"
  ELSE IF ~p.valid THEN "InvalidProof"
  ELSE IF p.signer # TICKETING_PUBKEY THEN "SignerMismatch"
  ELSE IF ~ \/ p.eventId # NoEventId /\ eventIdIsAllowed(p.eventId)
            \/ env.kind = "local" /\ fetchTelegramEventByEventId(p.eventId).present
    THEN "EventNotAllowed"
  ELSE IF p.watermark # expectedWatermark THEN "WatermarkMismatch"
  ELSE "none"

\* the failure kinds of the design's verifier
FailureKinds ==
  {"DeserializationError", "InvalidProof", "SignerMismatch", "EventNotAllowed",
   "WatermarkMismatch"}

\* the failure kinds that an error thrown by the verifier or by the checks of
\* a handler can stand for: "Deserialization error", "Could not verify PCD"
\* (the verifier returned null), "No Event Id found", the watermark errors
ReportedKinds(res) ==
  IF res = "DeserializationError" THEN {"DeserializationError"}
  ELSE IF res = "CouldNotVerifyPCD" THEN {"InvalidProof", "SignerMismatch", "EventNotAllowed"}
  ELSE IF res = "NoEventIdFound" THEN {"EventNotAllowed"}
  ELSE IF res \in {"NoWatermark", "WatermarkMismatch"} THEN {"WatermarkMismatch"}
  ELSE {}

\* the proof passes every check of the design for a join of telegramUserId
ProofIsGoodFor(p, telegramUserId) ==
  FirstFailure(p, NumberToString(telegramUserId)) = "none"

GetChatCall(chatId) == [api |-> "getChat", chat |-> chatId]

\* handleVerification that records the user for the chat of the event before
\* it has run its checks
HandleVerificationStartRecordsFirst(p, telegramUserId, chat) ==
  /\ hv = Idle
  /\ LET r == HandleVerificationChecks(p, telegramUserId, chat)
         event == fetchTelegramEventByEventId(p.eventId)
         cause == FirstFailure(p, NumberToString(telegramUserId))
     IN /\ verifications' = IF event.present
                              THEN verifications \cup {<<telegramUserId, event.telegram_chat_id>>}
                              ELSE verifications
        /\ IF r = "proceed"
             THEN /\ hv' = [pc |-> "insert", user |-> telegramUserId,
                            chat |-> event.telegram_chat_id, pcd |-> p,
                            good |-> cause = "none"]
                  /\ out' = [op |-> "verify", arg |-> <<telegramUserId>>, res |-> "pending",
                             calls |-> <<GetChatCall(event.telegram_chat_id)>>,
                             cause |-> cause]
             ELSE /\ hv' = Idle
                  /\ out' = [op |-> "verify", arg |-> <<telegramUserId>>, res |-> r,
                             calls |-> IF r \in {"PlatformError", "ChatTypeError"}
                                         THEN <<GetChatCall(event.telegram_chat_id)>>
                                         ELSE <<>>,
                             cause |-> cause]
  /\ UNCHANGED <<env, linkMenu, events, jr, an, watched, approvedSince,
                 granted, unjustified, qvars>>

\* handleVerification, from its start up to the answer of bot.api.getChat
HandleVerificationStart(p, telegramUserId, chat) ==
  /\ hv = Idle
  /\ LET r == HandleVerificationChecks(p, telegramUserId, chat)
         event == fetchTelegramEventByEventId(p.eventId)
         cause == FirstFailure(p, NumberToString(telegramUserId))
     IN IF r = "proceed"
          THEN /\ hv' = [pc |-> "insert", user |-> telegramUserId,
                         chat |-> event.telegram_chat_id, pcd |-> p,
                         good |-> cause = "none"]
               /\ out' = [op |-> "verify", arg |-> <<telegramUserId>>, res |-> "pending",
                          calls |-> <<GetChatCall(event.telegram_chat_id)>>,
                          cause |-> cause]
          ELSE /\ hv' = Idle
               /\ out' = [op |-> "verify", arg |-> <<telegramUserId>>, res |-> r,
                          calls |-> IF r \in {"PlatformError", "ChatTypeError"}
                                      THEN <<GetChatCall(event.telegram_chat_id)>>
                                      ELSE <<>>,
                          cause |-> cause]
  /\ UNCHANGED <<env, linkMenu, events, verifications, jr, an, watched, approvedSince,
                 granted, unjustified, qvars>>

\* insert that records the user for every chat
insertVerificationEveryChat(telegramUserId, telegramChatId) ==
  verifications \cup ({telegramUserId} \X ChatIds)

\* insertTelegramVerification
insertTelegramVerification(telegramUserId, telegramChatId) ==
  verifications \cup {<<telegramUserId, telegramChatId>>}

\* handleVerification: await insertTelegramVerification(...)
HandleVerificationInsert ==
  /\ hv.pc = "insert"
  /\ IF <<hv.user, hv.chat>> \in verifications
       THEN \* the row exists already: the plain insert is refused by the key
            /\ hv' = Idle
            /\ out' = [op |-> "verify", arg |-> <<hv.user>>, res |-> "InsertConflict",
                       calls |-> <<>>, cause |-> "none"]
            /\ UNCHANGED <<verifications, approvedSince, granted, unjustified>>
       ELSE /\ verifications' = insertTelegramVerification(hv.user, hv.chat)
            /\ hv' = [hv EXCEPT !.pc = "invite"]
            /\ out' = [op |-> "verify", arg |-> <<hv.user>>, res |-> "pending",
                       calls |-> <<>>, cause |-> "none"]
            /\ approvedSince' = approvedSince \ {<<hv.user, hv.chat>>}
            /\ granted' = granted \ {<<hv.user, hv.chat>>}
            /\ unjustified' = IF hv.good THEN unjustified \ {<<hv.user, hv.chat>>}
                                          ELSE unjustified \cup {<<hv.user, hv.chat>>}
  /\ UNCHANGED <<env, linkMenu, events, jr, an, watched, qvars>>

CreateInviteCall(chatId) == [api |-> "createChatInviteLink", chat |-> chatId]

SendMessageCall(chatId) == [api |-> "sendMessage", chat |-> chatId]

\* sendInviteLink: createChatInviteLink, then sendMessage; either may fail
HandleVerificationInvite(failsAt) ==
  /\ hv.pc = "invite"
  /\ LET create == CreateInviteCall(hv.chat)
         send == SendMessageCall(hv.user)
         o == [op |-> "verify", arg |-> <<hv.user>>, res |-> "PlatformError",
               calls |-> <<>>, cause |-> "none"]
     IN out' = IF failsAt = "createChatInviteLink"
                 THEN [o EXCEPT !.calls = <<create>>]
               ELSE IF failsAt = "sendMessage"
                 THEN [o EXCEPT !.calls = <<create, send>>]
               ELSE [o EXCEPT !.calls = <<create, send>>, !.res = "ok"]
  /\ hv' = Idle
  /\ UNCHANGED <<env, linkMenu, events, verifications, jr, an, watched, approvedSince,
                 granted, unjustified, qvars>>

\* fetchTelegramVerificationStatus
fetchTelegramVerificationStatus(userId, chatId) == <<userId, chatId>> \in verifications

\* lookup that ignores the chat of the join request
VerificationStatusAnyChat(userId, chatId) ==
  \E c \in ChatIds : <<userId, c>> \in verifications

\* bot.start(): the long polling of the bot framework hands the updates to
\* the handlers one at a time, the next when the handler of the last has
\* ended; the chat_join_request handler is the one that spans several steps
NoUpdateInFlight == jr = Idle

\* the isVerified test of the chat_join_request handler
JoinRequestIsVerified(userId, chatId) == fetchTelegramVerificationStatus(userId, chatId)

\* bot.on("chat_join_request"): the lookup of the verification
JoinRequestStart(userId, chatId) ==
  /\ jr = Idle
  /\ IF JoinRequestIsVerified(userId, chatId)
       THEN /\ jr' = [pc |-> "approve", user |-> userId, chat |-> chatId]
            /\ out' = [op |-> "join", arg |-> <<userId, chatId>>, res |-> "pending",
                       calls |-> <<>>, cause |-> "none"]
       ELSE /\ jr' = Idle
            /\ out' = [op |-> "join", arg |-> <<userId, chatId>>, res |-> "ignored",
                       calls |-> <<>>, cause |-> "none"]
  /\ UNCHANGED <<env, linkMenu, events, verifications, hv, an, watched, approvedSince,
                 granted, unjustified, qvars>>

ApproveCall(chatId, userId) ==
  [api |-> "approveChatJoinRequest", chat |-> chatId, user |-> userId]

\* bot.on("chat_join_request"): await approveChatJoinRequest(chatId, userId)
JoinRequestApprove(ok) ==
  /\ jr.pc = "approve"
  /\ LET o == [op |-> "join", arg |-> <<jr.user, jr.chat>>, res |-> "approved",
               calls |-> <<ApproveCall(jr.chat, jr.user)>>, cause |-> "none"]
     IN IF ok
          THEN /\ jr' = [jr EXCEPT !.pc = "notify"]
               /\ out' = o
               /\ approvedSince' = approvedSince \cup ({<<jr.user, jr.chat>>} \cap watched)
          ELSE /\ jr' = Idle
               /\ out' = [o EXCEPT !.res = "PlatformError"]
               /\ UNCHANGED approvedSince
  /\ UNCHANGED <<env, linkMenu, events, verifications, hv, an, watched, granted,
                 unjustified, qvars>>

\* bot.on("chat_join_request"): createChatInviteLink and the two messages
JoinRequestNotify(failsAt) ==
  /\ jr.pc = "notify"
  /\ LET create == CreateInviteCall(jr.chat)
         send == SendMessageCall(jr.user)
         o == [op |-> "join", arg |-> <<jr.user, jr.chat>>, res |-> "PlatformError",
               calls |-> <<>>, cause |-> "none"]
     IN out' = IF failsAt = "createChatInviteLink"
                 THEN [o EXCEPT !.calls = <<create>>]
               ELSE IF failsAt = "sendMessage"
                 THEN [o EXCEPT !.calls = <<create, send>>]
               ELSE [o EXCEPT !.calls = <<create, send, send>>, !.res = "ok"]
  /\ jr' = Idle
  /\ UNCHANGED <<env, linkMenu, events, verifications, hv, an, watched, approvedSince,
                 granted, unjustified, qvars>>

\* deleteTelegramVerification
deleteTelegramVerification(userId, chatId) == verifications \ {<<userId, chatId>>}

MemberStatuses == {"member", "left", "administrator"}

\* membership handler that deletes the records of the user for every chat
ChatMemberForgetsUser(userId, chatId, status) ==
  /\ NoUpdateInFlight
  /\ IF status = "member"
       THEN /\ verifications' = {pr \in verifications : pr[1] # userId}
            /\ granted' = granted \cup ({<<userId, chatId>>} \cap watched)
            /\ unjustified' = unjustified \ {<<userId, chatId>>}
       ELSE UNCHANGED <<verifications, granted, unjustified>>
  /\ out' = [op |-> "member", arg |-> <<userId, chatId>>, res |-> status,
             calls |-> <<>>, cause |-> "none"]
  /\ UNCHANGED <<env, linkMenu, events, hv, jr, an, watched, approvedSince, qvars>>

\* membership handler that runs while a join request is being handled
ChatMemberConcurrent(userId, chatId, status) ==
  /\ IF status = "member"
       THEN /\ verifications' = deleteTelegramVerification(userId, chatId)
            /\ granted' = granted \cup ({<<userId, chatId>>} \cap watched)
            /\ unjustified' = unjustified \ {<<userId, chatId>>}
       ELSE UNCHANGED <<verifications, granted, unjustified>>
  /\ out' = [op |-> "member", arg |-> <<userId, chatId>>, res |-> status,
             calls |-> <<>>, cause |-> "none"]
  /\ UNCHANGED <<env, linkMenu, events, hv, jr, an, watched, approvedSince, qvars>>

\* membership handler that forgets to delete
ChatMemberKeeps(userId, chatId, status) ==
  /\ NoUpdateInFlight
  /\ out' = [op |-> "member", arg |-> <<userId, chatId>>, res |-> status,
             calls |-> <<>>, cause |-> "none"]
  /\ granted' = IF status = "member"
                  THEN granted \cup ({<<userId, chatId>>} \cap watched) ELSE granted
  /\ UNCHANGED <<env, linkMenu, events, verifications, hv, jr, an, watched, approvedSince,
                 unjustified, qvars>>

\* bot.on("chat_member")
ChatMember(userId, chatId, status) ==
  /\ NoUpdateInFlight
  /\ IF status = "member"
       THEN /\ verifications' = deleteTelegramVerification(userId, chatId)
            /\ granted' = granted \cup ({<<userId, chatId>>} \cap watched)
            /\ unjustified' = unjustified \ {<<userId, chatId>>}
       ELSE UNCHANGED <<verifications, granted, unjustified>>
  /\ out' = [op |-> "member", arg |-> <<userId, chatId>>, res |-> status,
             calls |-> <<>>, cause |-> "none"]
  /\ UNCHANGED <<env, linkMenu, events, hv, jr, an, watched, approvedSince, qvars>>

\* handleSendAnonymousMessage, from its start up to the answer of bot.api.getChat
SendAnonymousStart(p, message, chat) ==
  /\ an = Idle
  /\ LET r == SendAnonymousChecks(p, message, chat)
         event == fetchTelegramEventByEventId(p.eventId)
         cause == FirstFailure(p, getMessageWatermark(message))
     IN IF r = "proceed"
          THEN /\ an' = [pc |-> "send", chat |-> event.telegram_chat_id,
                         anon |-> event.anon_chat_id, message |-> message, pcd |-> p]
               /\ out' = [op |-> "anon", arg |-> <<message>>, res |-> "pending",
                          calls |-> <<GetChatCall(event.telegram_chat_id)>>,
                          cause |-> cause]
          ELSE /\ an' = Idle
               /\ out' = [op |-> "anon", arg |-> <<message>>, res |-> r,
                          calls |-> IF r \in {"PlatformError", "ChatTypeError"}
                                      THEN <<GetChatCall(event.telegram_chat_id)>>
                                      ELSE <<>>,
                          cause |-> cause]
  /\ UNCHANGED <<env, linkMenu, events, verifications, hv, jr, watched, approvedSince,
                 granted, unjustified, qvars>>

\* a forward that leaves the topic out
ForwardCallNoThread(groupId, anonChatId, message) ==
  [api |-> "sendMessage", chat |-> groupId, message_thread_id |-> 0, text |-> message]

\* bot.api.sendMessage(groupId, message, {message_thread_id: anonChatId})
ForwardCall(groupId, anonChatId, message) ==
  [api |-> "sendMessage", chat |-> groupId, message_thread_id |-> anonChatId,
   text |-> message]

\* a forward that names the holder of the ticket to the platform
SendAnonymousForwardSigned(ok) ==
  /\ an.pc = "send"
  /\ out' = [op |-> "anon", arg |-> <<an.message>>,
             res |-> IF ok THEN "ok" ELSE "PlatformError",
             calls |-> <<[api |-> "sendMessage", chat |-> an.chat,
                          message_thread_id |-> an.anon, text |-> an.message,
                          from |-> an.pcd.holder]>>,
             cause |-> "none"]
  /\ an' = Idle
  /\ UNCHANGED <<env, linkMenu, events, verifications, hv, jr, watched, approvedSince,
                 granted, unjustified, qvars>>

\* sendToAnonymousChannel
SendAnonymousForward(ok) ==
  /\ an.pc = "send"
  /\ out' = [op |-> "anon", arg |-> <<an.message>>,
             res |-> IF ok THEN "ok" ELSE "PlatformError",
             calls |-> <<ForwardCall(an.chat, an.anon, an.message)>>, cause |-> "none"]
  /\ an' = Idle
  /\ UNCHANGED <<env, linkMenu, events, verifications, hv, jr, watched, approvedSince,
                 granted, unjustified, qvars>>

\* ----------------------------------------------------------------------
\* /link, /unlink and the events menu
\* the events the menu lists (fetchLinkedPretixAndTelegramEvents): the
\* configured events
MenuEvents == EventIds \ {"evt-999"}

\* outcomes of ctx.getChatAdministrators(): the bot is among the admins, it
\* is not, or the call fails
AdminAnswers == {"admin", "notAdmin", "fails"}

\* ctx.chat.type of the chat a command is sent in
CommandChatTypes == {"private", "supergroup"}

\* ctx.from of an update sent in a chat: an administrator of the chat, or
\* another member of it
ChatSenders == {"admin", "member"}

\* what the record of an operation keeps of the sender of its update
SenderCause(sender) == IF sender = "admin" THEN "none" ELSE "SenderNotAdmin"

\* the body shared by bot.command("link") and bot.command("unlink"), for a
\* command sent by sender
MenuCommandFrom(sender, mode, chatId, chatType, admins) ==
  /\ NoUpdateInFlight
  /\ LET res == IF chatType = "private" THEN "PrivateChat"
                ELSE IF admins = "fails" THEN "PlatformError"
                ELSE IF admins = "notAdmin" THEN "NotAdmin"
                ELSE "menu"
     IN /\ linkMenu' = IF res = "menu"
                         THEN [mode |-> mode, chats |-> linkMenu.chats \cup {chatId},
                               options |-> [linkMenu.options EXCEPT ![chatId] = mode]]
                         ELSE linkMenu
        /\ out' = [op |-> mode, arg |-> <<chatId>>, res |-> res, calls |-> <<>>,
                   cause |-> SenderCause(sender)]
  /\ UNCHANGED <<env, events, verifications, hv, jr, an, watched, approvedSince,
                 granted, unjustified, qvars>>

\* the commands as an administrator of the chat sends them
MenuCommand(mode, chatId, chatType, admins) ==
  MenuCommandFrom("admin", mode, chatId, chatType, admins)

\* bot.command("link")
LinkCommand(chatId, chatType, admins) == MenuCommand("link", chatId, chatType, admins)

\* bot.command("unlink")
UnlinkCommand(chatId, chatType, admins) == MenuCommand("unlink", chatId, chatType, admins)

\* deleteTelegramEvent
deleteTelegramEvent(eventId) == [events EXCEPT ![eventId] = NoRow]

\* insert that leaves the row of an event that has one (on conflict do nothing)
insertTelegramEventDoNothing(ticketEventId, telegramChatId) ==
  [events EXCEPT ![ticketEventId] =
     IF @.present THEN @ ELSE Row(telegramChatId, 0)]

\* insertTelegramEvent: insert ... on conflict (ticket_event_id) do update
\* set telegram_chat_id
insertTelegramEvent(ticketEventId, telegramChatId) ==
  [events EXCEPT ![ticketEventId] =
     IF @.present THEN [@ EXCEPT !.telegram_chat_id = telegramChatId]
                  ELSE Row(telegramChatId, 0)]

\* event?.telegramChatID === ctx.chat.id.toString()
EventIsLinkedTo(eventId, chatId) ==
  /\ events[eventId].present
  /\ NumberToString(events[eventId].telegram_chat_id) = NumberToString(chatId)

\* menu button that leaves the binding of an event that has one
LinkMenuPressKeepsBinding(chatId, eventId) ==
  /\ NoUpdateInFlight
  /\ linkMenu.mode # "none"
  /\ chatId \in linkMenu.chats
  /\ IF linkMenu.mode = "unlink"
       THEN IF ~EventIsLinkedTo(eventId, chatId)
              THEN /\ out' = [op |-> "press", arg |-> <<chatId, eventId>>, res |-> "NotLinked",
                              calls |-> <<>>, cause |-> "none"]
                   /\ UNCHANGED events
              ELSE /\ events' = deleteTelegramEvent(eventId)
                   /\ out' = [op |-> "press", arg |-> <<chatId, eventId>>, res |-> "Unlinked",
                              calls |-> <<>>, cause |-> "none"]
       ELSE IF EventIsLinkedTo(eventId, chatId)
              THEN /\ out' = [op |-> "press", arg |-> <<chatId, eventId>>,
                              res |-> "AlreadyLinked", calls |-> <<>>, cause |-> "none"]
                   /\ UNCHANGED events
              ELSE /\ events' = IF events[eventId].present THEN events
                                ELSE insertTelegramEvent(eventId, chatId)
                   /\ out' = [op |-> "press", arg |-> <<chatId, eventId>>, res |-> "Linked",
                              calls |-> <<>>, cause |-> "none"]
  /\ UNCHANGED <<env, linkMenu, verifications, hv, jr, an, watched, approvedSince,
                 granted, unjustified, qvars>>

\* menu button whose unlink clears the chat of the row and leaves its topic
LinkMenuPressLeavesTopic(chatId, eventId) ==
  /\ NoUpdateInFlight
  /\ linkMenu.mode # "none"
  /\ chatId \in linkMenu.chats
  /\ IF linkMenu.mode = "unlink"
       THEN IF ~EventIsLinkedTo(eventId, chatId)
              THEN /\ out' = [op |-> "press", arg |-> <<chatId, eventId>>, res |-> "NotLinked",
                              calls |-> <<>>, cause |-> "none"]
                   /\ UNCHANGED events
              ELSE /\ events' = [events EXCEPT ![eventId] =
                                   [present |-> FALSE, telegram_chat_id |-> 0,
                                    anon_chat_id |-> @.anon_chat_id]]
                   /\ out' = [op |-> "press", arg |-> <<chatId, eventId>>, res |-> "Unlinked",
                              calls |-> <<>>, cause |-> "none"]
       ELSE IF EventIsLinkedTo(eventId, chatId)
              THEN /\ out' = [op |-> "press", arg |-> <<chatId, eventId>>,
                              res |-> "AlreadyLinked", calls |-> <<>>, cause |-> "none"]
                   /\ UNCHANGED events
              ELSE /\ events' = insertTelegramEvent(eventId, chatId)
                   /\ out' = [op |-> "press", arg |-> <<chatId, eventId>>, res |-> "Linked",
                              calls |-> <<>>, cause |-> "none"]
  /\ UNCHANGED <<env, linkMenu, verifications, hv, jr, an, watched, approvedSince,
                 granted, unjustified, qvars>>

\* a button of the events menu is pressed in a chat by sender: the handler
\* that buildLinkMenu attaches to the event of the button
LinkMenuPressFrom(sender, chatId, eventId) ==
  /\ NoUpdateInFlight
  /\ linkMenu.mode # "none"
  /\ chatId \in linkMenu.chats
  /\ IF linkMenu.mode = "unlink"
         THEN IF ~EventIsLinkedTo(eventId, chatId)
                THEN /\ out' = [op |-> "press", arg |-> <<chatId, eventId>>, res |-> "NotLinked",
                                calls |-> <<>>, cause |-> SenderCause(sender)]
                     /\ UNCHANGED events
                ELSE /\ events' = deleteTelegramEvent(eventId)
                     /\ out' = [op |-> "press", arg |-> <<chatId, eventId>>, res |-> "Unlinked",
                                calls |-> <<>>, cause |-> SenderCause(sender)]
         ELSE IF EventIsLinkedTo(eventId, chatId)
                THEN /\ out' = [op |-> "press", arg |-> <<chatId, eventId>>,
                                res |-> "AlreadyLinked", calls |-> <<>>, cause |-> SenderCause(sender)]
                     /\ UNCHANGED events
                ELSE /\ events' = insertTelegramEvent(eventId, chatId)
                     /\ out' = [op |-> "press", arg |-> <<chatId, eventId>>, res |-> "Linked",
                                calls |-> <<>>, cause |-> SenderCause(sender)]
  /\ UNCHANGED <<env, linkMenu, verifications, hv, jr, an, watched, approvedSince,
                 granted, unjustified, qvars>>

\* a button of the events menu pressed by an administrator of the chat
LinkMenuPress(chatId, eventId) == LinkMenuPressFrom("admin", chatId, eventId)

\* proofs that pass the verifier's proof and signer checks, bound to a user
LinkProofs ==
  {p \in Proofs : /\ p.deser /\ p.valid /\ p.signer = TICKETING_PUBKEY
                  /\ p.eventId \in EventIds
                  /\ p.watermark \in {NumberToString(u) : u \in UserIds}}

\* ----------------------------------------------------------------------
\* /incognito
\* ctx.message?.message_thread_id of a command: a topic, or 0 for none
TopicIds == {7, 9}

\* ctx.chat.type of the chats /incognito is sent in
IncognitoChatTypes == {"supergroup", "group"}

\* fetchTelegramEventsByChatId: the events whose row names the chat
fetchTelegramEventsByChatId(chatId) ==
  {e \in EventIds : events[e].present /\ events[e].telegram_chat_id = chatId}

\* the reply of bot.command("incognito"); a chat that is no supergroup gets a
\* reply of its own and the handler goes on
IncognitoReply(chatId, messageThreadId, admins) ==
  LET telegramEvents == fetchTelegramEventsByChatId(chatId)
  IN IF messageThreadId = 0 THEN "NoThread"
     ELSE IF admins = "fails" THEN "PlatformError"
     ELSE IF admins = "notAdmin" THEN "NotAdmin"
     ELSE IF telegramEvents = {} THEN "NotLinked"
     ELSE IF \E e \in telegramEvents : events[e].anon_chat_id # 0 THEN "AlreadyBound"
     ELSE "Bound"

\* bot.command("incognito"): on success it calls insertTelegramEvent with the
\* first event of the chat, the chat of its row, and the topic as a fourth
\* argument, which insertTelegramEvent does not take
IncognitoCommand(chatId, chatType, messageThreadId, admins) ==
  /\ NoUpdateInFlight
  /\ LET res == IncognitoReply(chatId, messageThreadId, admins)
     IN /\ IF res = "Bound"
             THEN \E e \in fetchTelegramEventsByChatId(chatId) :
                    events' = insertTelegramEvent(e, events[e].telegram_chat_id)
             ELSE UNCHANGED events
        /\ out' = [op |-> "incognito", arg |-> <<chatId, messageThreadId>>, res |-> res,
                   calls |-> <<>>,
                   cause |-> IF messageThreadId # 0 /\ chatType # "supergroup"
                               THEN "NotSupergroup" ELSE "none"]
  /\ UNCHANGED <<env, linkMenu, verifications, hv, jr, an, watched, approvedSince,
                 granted, unjustified, qvars>>

\* the tickets presented to the anonymous route while chats are linked and
\* bound: proofs that pass the proof and signer checks, each with what the
\* claim reveals of its holder (nullifier, revealed ticket fields)
AnonTickets ==
  [deser : {TRUE}, valid : {TRUE}, signer : {TICKETING_PUBKEY}, eventId : MenuEvents,
   watermark : {MessageWatermarks[m] : m \in Messages}, holder : UserIds]

InviteFailures == {"none", "createChatInviteLink", "sendMessage"}

\* the answers of bot.api.getChat that matter to a call: all of them when the
\* call gets as far as getChat, none (one stand-in) when it fails before
GetChatAnswers(checks) == IF checks = "proceed" THEN GetChatResults ELSE {"fails"}

\* the admission flow: verification, join requests, membership changes
NextJoin ==
  \/ \E p \in JoinProofs, u \in UserIds :
       \E chat \in GetChatAnswers(HandleVerificationChecks(p, u, "supergroup")) :
         HandleVerificationStart(p, u, chat)
  \/ HandleVerificationInsert
  \/ \E f \in InviteFailures : HandleVerificationInvite(f)
  \/ \E u \in UserIds, c \in ChatIds : JoinRequestStart(u, c)
  \/ \E ok \in BOOLEAN : JoinRequestApprove(ok)
  \/ \E f \in InviteFailures : JoinRequestNotify(f)
  \/ \E u \in UserIds, c \in ChatIds, s \in MemberStatuses : ChatMember(u, c, s)

\* the two routes that take a proof: verification and anonymous send
NextVerify ==
  \/ \E p \in Proofs, u \in UserIds :
       \E chat \in GetChatAnswers(HandleVerificationChecks(p, u, "supergroup")) :
         HandleVerificationStart(p, u, chat)
  \/ HandleVerificationInsert
  \/ \E f \in InviteFailures : HandleVerificationInvite(f)
  \/ \E p \in Proofs, m \in Messages :
       \E chat \in GetChatAnswers(SendAnonymousChecks(p, m, "supergroup")) :
         SendAnonymousStart(p, m, chat)
  \/ \E ok \in BOOLEAN : SendAnonymousForward(ok)

\* the user who verifies while events are linked and unlinked
LinkUsers == {7}

\* linking and unlinking of events and chats, and verification
NextLink ==
  \/ \E c \in ChatIds, t \in CommandChatTypes, a \in AdminAnswers : LinkCommand(c, t, a)
  \/ \E c \in ChatIds, t \in CommandChatTypes, a \in AdminAnswers : UnlinkCommand(c, t, a)
  \/ \E c \in ChatIds, e \in MenuEvents : LinkMenuPress(c, e)
  \/ \E p \in LinkProofs, u \in LinkUsers :
       \E chat \in GetChatAnswers(HandleVerificationChecks(p, u, "supergroup")) :
         HandleVerificationStart(p, u, chat)
  \/ HandleVerificationInsert
  \/ \E f \in InviteFailures : HandleVerificationInvite(f)

\* linking, unlinking and anonymous channels, with anonymous sends
NextAnon ==
  \/ \E c \in ChatIds, t \in CommandChatTypes, a \in AdminAnswers : LinkCommand(c, t, a)
  \/ \E c \in ChatIds, t \in CommandChatTypes, a \in AdminAnswers : UnlinkCommand(c, t, a)
  \/ \E c \in ChatIds, e \in MenuEvents : LinkMenuPress(c, e)
  \/ \E c \in ChatIds, t \in IncognitoChatTypes, th \in TopicIds \cup {0}, a \in AdminAnswers :
       IncognitoCommand(c, t, th, a)
  \/ \E p \in AnonTickets, m \in Messages :
       \E chat \in GetChatAnswers(SendAnonymousChecks(p, m, "supergroup")) :
         SendAnonymousStart(p, m, chat)
  \/ \E ok \in BOOLEAN : SendAnonymousForward(ok)

\* linking and unlinking by administrators and by other members of a chat
NextAdmins ==
  \/ \E s \in ChatSenders, m \in {"link", "unlink"}, c \in ChatIds,
        t \in CommandChatTypes, a \in AdminAnswers : MenuCommandFrom(s, m, c, t, a)
  \/ \E s \in ChatSenders, c \in ChatIds, e \in MenuEvents : LinkMenuPressFrom(s, c, e)

NextQueue ==
  \/ \E r \in ProveRequests : Submit(r)
  \/ ProveComplete
  \/ ProveError
  \/ \E h \in Hashes : Poll(h)

Init == InitQueue /\ InitTelegram(OnePair, Envs)

Next == NextQueue \/ NextJoin \/ NextVerify \/ NextLink \/ NextAnon \/ NextAdmins

Spec == Init /\ [][Next]_vars

\* the proving routes
InitSpecQueue == InitQueue /\ InitTelegramUnused

SpecQueue == InitSpecQueue /\ [][NextQueue]_vars

\* the proving routes with a worker whose computations all terminate: the job
\* at the head of the queue eventually settles, one way or the other
SpecQueueFair == InitSpecQueue /\ [][NextQueue]_vars /\ WF_vars(ProveComplete \/ ProveError)

\* the admission flow
InitSpecJoin == InitQueue /\ InitTelegram(NoPair, Envs)

SpecJoin == InitSpecJoin /\ [][NextJoin]_vars

\* the admission flow with the history of approvals and membership grants,
\* on the deployments that enforce the allow-list
InitSpecAdmission == InitQueue /\ InitTelegram(OneAdmissionPair, EnforcingEnvs)

SpecAdmission == InitSpecAdmission /\ [][NextJoin]_vars

\* the linking of events and chats, with verification, on a local and on a
\* production deployment
InitSpecLink ==
  InitQueue /\ InitTelegram(NoPair, {e \in Envs : e.hasKey /\ e.kind # "staging"})

SpecLink == InitSpecLink /\ [][NextLink]_vars

\* the link and unlink commands and the events menu, used by administrators
\* and by other members
InitSpecAdmins ==
  InitQueue /\ InitTelegram(NoPair, {e \in Envs : e.hasKey /\ e.kind = "production"})

SpecAdmins == InitSpecAdmins /\ [][NextAdmins]_vars

\* linking, anonymous channels and anonymous sends on a production deployment
InitSpecAnon ==
  InitQueue /\ InitTelegram(NoPair, {e \in Envs : e.hasKey /\ e.kind = "production"})

SpecAnon == InitSpecAnon /\ [][NextAnon]_vars

\* the proof-taking routes
InitSpecVerify == InitQueue /\ InitTelegram(NoPair, Envs)

SpecVerify == InitSpecVerify /\ [][NextVerify]_vars

\* ----------------------------------------------------------------------
\* C1: for every request hash prove() is started at most once, however often
\* and whenever the same request is submitted: a job that left QUEUED was
\* started exactly once, a job still QUEUED or absent was never started, and
\* every submit answers with hash = hashRequest(request).
C1_ProveOncePerHash ==
  /\ \A h \in Hashes :
       /\ proveCount[h] <= 1
       /\ stampStatus[h] \in {"PROVING", "COMPLETE", "ERROR"} => proveCount[h] = 1
       /\ stampStatus[h] \in {"NONE", "QUEUED"} => proveCount[h] = 0
  /\ response.op = "prove" => response.hash = hashRequest(response.req)

\* a request submitted again after its job completed, still proved once
C1_Witness ==
  \E h \in Hashes :
    /\ response.op = "prove" /\ response.hash = h /\ response.status = "COMPLETE"
    /\ stampStatus[h] = "COMPLETE"
    /\ proveCount[h] = 1

\* C2: in every reachable state at most one job has status PROVING.
C2_AtMostOneProving ==
  Cardinality({h \in Hashes : stampStatus[h] = "PROVING"}) <= 1

\* one job proving while another one waits in the queue
C2_Witness ==
  /\ Len(queue) >= 2
  /\ stampStatus[hashRequest(queue[1])] = "PROVING"
  /\ stampStatus[hashRequest(queue[2])] = "QUEUED"

\* ----------------------------------------------------------------------
\* helpers of the properties

\* the ids of the other users, written as watermarks
OtherUserWatermarks(u) == {NumberToString(w) : w \in UserIds \ {u}}

\* C3: in the join flow a proof whose watermark is the id of another user is
\* never accepted for requester u by a call that starts; when it passes every earlier check of the
\* design the error is the watermark mismatch; the rejecting step creates no
\* verification record, starts no insert and makes no platform call.
C3_JoinWatermarkBinding ==
  /\ [](hv = Idle =>
          \A u \in UserIds, c \in GetChatResults :
            \A p \in {q \in Proofs : q.watermark \in OtherUserWatermarks(u)} :
              LET r == HandleVerificationChecks(p, u, c)
              IN /\ r # "proceed"
                 /\ FirstFailure(p, NumberToString(u)) = "WatermarkMismatch"
                      => r = "WatermarkMismatch")
  /\ []((out.op = "verify" /\ out.cause = "WatermarkMismatch")
          => out.res \in {"WatermarkMismatch", "NoWatermark"} /\ hv = Idle /\ out.calls = <<>>)
  /\ [][(hv = Idle /\ out'.op = "verify" /\ out'.res = "WatermarkMismatch")
          => hv' = Idle /\ verifications' = verifications /\ out'.calls = <<>>]_vars

\* a valid, rightly signed proof of an allowed, linked event was refused for
\* its watermark
C3_Witness ==
  /\ out.op = "verify" /\ out.res = "WatermarkMismatch"
  /\ out.cause = "WatermarkMismatch"
  /\ env.kind = "production"

\* C4: anonymous send never accepts a proof whose watermark differs from the
\* digest of the message; when the proof passes every earlier check the error
\* is the watermark mismatch and nothing is forwarded; a message is only ever
\* forwarded under a proof whose watermark is the digest of that very message.
C4_AnonWatermarkBinding ==
  /\ [](an = Idle =>
          \A m \in Messages, c \in GetChatResults :
            \A p \in {q \in Proofs : q.watermark # getMessageWatermark(m)} :
              LET r == SendAnonymousChecks(p, m, c)
              IN /\ r # "proceed"
                 /\ (p.watermark # NoWatermark
                     /\ FirstFailure(p, getMessageWatermark(m)) = "WatermarkMismatch")
                      => r = "WatermarkMismatch")
  /\ [](an.pc = "send" => an.pcd.watermark = getMessageWatermark(an.message))
  /\ [][(an = Idle /\ out'.op = "anon" /\ out'.res = "WatermarkMismatch")
          => an' = Idle /\ out'.calls = <<>>]_vars
  /\ [][(out'.op = "anon" /\ out' # out /\ \E i \in 1..Len(out'.calls) :
                                             out'.calls[i].api = "sendMessage")
          => /\ an.pc = "send"
             /\ out'.calls = <<ForwardCall(an.chat, an.anon, an.message)>>
             /\ an.pcd.watermark = getMessageWatermark(an.message)]_vars

\* an otherwise good proof was refused for a message it does not bind
C4_Witness ==
  /\ out.op = "anon" /\ out.res = "WatermarkMismatch"
  /\ out.cause = "WatermarkMismatch"
  /\ an = Idle /\ out.calls = <<>>

\* C5: admission lifecycle. A join request for a pair with a recorded
\* verification goes on to the approve call for that pair; once a membership
\* grant for the pair was processed and no verification was recorded since, the
\* pair has no record and a join request started then is ignored.
C5_AdmissionLifecycle ==
  /\ [](granted \cap verifications = {})
  /\ [][\A u \in UserIds, c \in ChatIds :
          JoinRequestStart(u, c) =>
            /\ <<u, c>> \in verifications
                 => jr' = [pc |-> "approve", user |-> u, chat |-> c]
            /\ <<u, c>> \in granted
                 => jr' = Idle /\ out'.res = "ignored" /\ out'.calls = <<>>]_vars
  /\ [][(jr.pc = "approve" /\ jr' # jr)
          => out'.calls = <<ApproveCall(jr.chat, jr.user)>>]_vars

\* a pair that was verified and approved, then granted membership, asks again
\* and is ignored
C5_Witness ==
  /\ out.op = "join" /\ out.res = "ignored"
  /\ <<out.arg[1], out.arg[2]>> \in granted \cap approvedSince

\* C6: the join-request handler goes on to approve exactly when the record of
\* the very pair (user, chat) is present at its lookup; otherwise it ends at
\* once with no platform call and no change of the stored tables; an approve
\* call is only issued by a handler that found the record, for that pair.
C6_JoinNeedsRecord ==
  /\ [][\A u \in UserIds, c \in ChatIds :
          JoinRequestStart(u, c) =>
            IF <<u, c>> \in verifications
              THEN jr' = [pc |-> "approve", user |-> u, chat |-> c]
              ELSE /\ jr' = Idle
                   /\ out'.calls = <<>>
                   /\ verifications' = verifications
                   /\ events' = events]_vars
  /\ [][(out' # out /\ \E i \in 1..Len(out'.calls) :
                         out'.calls[i].api = "approveChatJoinRequest")
          => jr.pc = "approve" /\ out'.calls = <<ApproveCall(jr.chat, jr.user)>>]_vars

\* a user verified for one chat asked to join the other chat and was ignored
C6_Witness ==
  /\ out.op = "join" /\ out.res = "ignored"
  /\ <<out.arg[1], out.arg[2]>> \notin verifications
  /\ \E c \in ChatIds \ {out.arg[2]} : <<out.arg[1], c>> \in verifications
  /\ jr = Idle

\* C7: every stored verification record was inserted by a handleVerification
\* run whose proof passed every check of the design for that user and whose
\* event resolved to that chat; only that insert adds a record.
C7_RecordsAreVerified ==
  /\ [](unjustified = {})
  /\ [](hv # Idle =>
          /\ hv.good
          /\ hv.pcd.watermark = NumberToString(hv.user)
          /\ fetchTelegramEventByEventId(hv.pcd.eventId) = Row(hv.chat,
               fetchTelegramEventByEventId(hv.pcd.eventId).anon_chat_id))
  /\ [][~(verifications' \subseteq verifications)
          => hv.pc = "insert" /\ verifications' = verifications \cup {<<hv.user, hv.chat>>}]_vars

\* a record was just inserted
C7_Witness ==
  /\ hv # Idle /\ hv.pc = "invite"
  /\ <<hv.user, hv.chat>> \in verifications

\* C8: between two approvals of join requests of one pair a verification of
\* that pair is recorded: no approve call succeeds for a pair that was
\* approved since its latest recorded verification.
C8_OneApprovalPerVerification ==
  [][(jr.pc = "approve" /\ jr' # Idle /\ jr'.pc = "notify")
       => <<jr.user, jr.chat>> \notin approvedSince]_vars

\* C9: a proof whose signer differs from the ticketing key is refused by the
\* verifier and by both flows, valid or not, on every deployment; no call in
\* flight carries such a proof, so none reaches the insert or the forward.
C9_SignerRequired ==
  /\ [](\A p \in {q \in Proofs : q.signer # TICKETING_PUBKEY} :
          /\ VerifyPCD(env, p) # "pcd"
          /\ hv = Idle => \A u \in UserIds, c \in GetChatResults :
                            HandleVerificationChecks(p, u, c) # "proceed"
          /\ an = Idle => \A m \in Messages, c \in GetChatResults :
                            SendAnonymousChecks(p, m, c) # "proceed")
  /\ [](hv # Idle => hv.pcd.signer = TICKETING_PUBKEY)
  /\ [](an # Idle => an.pcd.signer = TICKETING_PUBKEY)
  /\ [][(out'.op \in {"verify", "anon"} /\ out'.cause = "SignerMismatch")
          => /\ verifications' = verifications
             /\ out'.calls = <<>>
             /\ out'.op = "verify" => hv' = Idle
             /\ out'.op = "anon" => an' = Idle]_vars

\* a valid proof signed by another key was refused
C9_Witness ==
  /\ out.op = "verify" /\ out.cause = "SignerMismatch"
  /\ out.res = "CouldNotVerifyPCD" /\ hv = Idle

\* the event of a proof is neither on the allow-list nor registered
EventUnknown(p) ==
  /\ ~(p.eventId # NoEventId /\ eventIdIsAllowed(p.eventId))
  /\ ~fetchTelegramEventByEventId(p.eventId).present

\* C10 as stated: a proof that fails the event check (and no earlier one) is
\* refused by the verifier's event check on every deployment.
C10_RefusedByEventCheck ==
  (out.op \in {"verify", "anon"} /\ out.cause = "EventNotAllowed")
    => out.res \in {"CouldNotVerifyPCD", "NoEventIdFound"}

\* C10 amended: a proof whose event is neither on the allow-list nor
\* registered is refused on every deployment; on staging and production by
\* the verifier's event check, on a local server, where the verifier lets
\* every event through, by a later check of the handler.
C10_UnknownEventRefused ==
  /\ \A p \in {q \in Proofs : EventUnknown(q)} :
       /\ hv = Idle => \A u \in UserIds, c \in GetChatResults :
                         HandleVerificationChecks(p, u, c) # "proceed"
       /\ an = Idle => \A m \in Messages, c \in GetChatResults :
                         SendAnonymousChecks(p, m, c) # "proceed"
       /\ env.kind # "local" => VerifyPCD(env, p) # "pcd"
  /\ (out.op \in {"verify", "anon"} /\ out.cause = "EventNotAllowed")
       => /\ out.calls = <<>>
          /\ out.op = "verify" => hv = Idle
          /\ out.op = "anon" => an = Idle
          /\ out.res \in IF env.kind = "local"
                           THEN {"NoWatermark", "WatermarkMismatch", "TicketWithoutEventId",
                                 "NoMatchingChat", "EventNotAvailable"}
                           ELSE {"CouldNotVerifyPCD", "NoEventIdFound"}

\* on a local server an unknown event got past the verifier and was refused
\* by the lookup of its chat
C10_Witness ==
  /\ out.op = "verify" /\ out.cause = "EventNotAllowed"
  /\ env.kind = "local" /\ out.res = "NoMatchingChat"

\* ----------------------------------------------------------------------
\* the actions a proof can be presented for: the join of a user, the sending
\* of a message
ProofActions ==
  {[flow |-> "join", user |-> u] : u \in UserIds}
    \cup {[flow |-> "send", message |-> m] : m \in Messages}

\* the handler of the action lets the proof through, whatever getChat answers
AcceptedFor(p, a) ==
  IF a.flow = "join"
    THEN HandleVerificationChecks(p, a.user, "supergroup") = "proceed"
    ELSE SendAnonymousChecks(p, a.message, "supergroup") = "proceed"

\* C11: no proof is accepted for two different actions (joins of two users,
\* sendings of two messages, or a join and a sending); every call in flight
\* carries a proof bound to its own action, so the two flows never work on
\* the same proof.
C11_NoReplayAcrossActions ==
  /\ (hv = Idle /\ an = Idle) =>
       \A p \in Proofs :
         Cardinality({a \in ProofActions : AcceptedFor(p, a)}) <= 1
  /\ hv # Idle => hv.pcd.watermark = NumberToString(hv.user)
  /\ an # Idle => an.pcd.watermark = getMessageWatermark(an.message)
  /\ (hv # Idle /\ an # Idle) => hv.pcd # an.pcd

\* a proof accepted for a join is in flight while the anonymous send, which
\* refuses that proof for every message, has just refused a proof for its
\* watermark
C11_Witness ==
  /\ hv # Idle
  /\ \A m \in Messages :
       SendAnonymousChecks(hv.pcd, m, "supergroup") = "WatermarkMismatch"
  /\ \A u \in UserIds \ {hv.user} :
       HandleVerificationChecks(hv.pcd, u, "supergroup") = "WatermarkMismatch"
  /\ out.op = "anon" /\ out.res = "WatermarkMismatch" /\ out.cause = "WatermarkMismatch"

\* ----------------------------------------------------------------------
\* C12: jobs are served in the order of first submission: while a job is not
\* settled, no job first submitted after it is PROVING, COMPLETE or ERROR.
C12_Fifo ==
  \A j \in 2..Len(submitted) : stampStatus[submitted[j]] = "QUEUED"

\* an earlier job has settled, the oldest unsettled job is proving and a job
\* submitted after it waits
C12_Witness ==
  /\ Len(submitted) >= 2
  /\ stampStatus[submitted[1]] = "PROVING"
  /\ stampStatus[submitted[2]] = "QUEUED"
  /\ \E h \in Hashes : stampStatus[h] \in {"COMPLETE", "ERROR"}

\* ----------------------------------------------------------------------
\* C13: with terminating computations every job that is QUEUED or PROVING
\* eventually is COMPLETE or ERROR (time and again a hash is without a job or
\* its job has settled, and a hash with a job never loses it); every settling of a job, COMPLETE or
\* ERROR, that leaves the queue non-empty makes its new head PROVING.
C13_EveryJobSettles ==
  /\ \A h \in Hashes : []<>(stampStatus[h] \in {"NONE", "COMPLETE", "ERROR"})
  /\ [][\A h \in Hashes : stampStatus[h] # "NONE" => stampStatus'[h] # "NONE"]_vars
  /\ [][(Len(queue) > 0 /\ queue' = Tail(queue) /\ Len(queue') > 0)
          => /\ stampStatus'[hashRequest(Head(queue))] \in {"COMPLETE", "ERROR"}
             /\ stampStatus[hashRequest(Head(queue'))] = "QUEUED"
             /\ stampStatus'[hashRequest(Head(queue'))] = "PROVING"]_vars

\* a job ended in ERROR, none completed, and the worker went on: the next job
\* is proving and another one waits
C13_Witness ==
  /\ Cardinality({h \in Hashes : stampStatus[h] = "ERROR"}) = 1
  /\ \A h \in Hashes : stampStatus[h] # "COMPLETE"
  /\ Len(queue) >= 2
  /\ stampStatus[hashRequest(queue[1])] = "PROVING"
  /\ stampStatus[hashRequest(queue[2])] = "QUEUED"
  /\ proveCount[hashRequest(queue[1])] = 1

\* ----------------------------------------------------------------------
\* no job is queued or computing
NoActiveJob == \A h \in Hashes : stampStatus[h] \notin {"QUEUED", "PROVING"}

\* C14: a submit of a request whose hash has no job appends the request to
\* the queue and creates its job; the job is PROVING, with the computation
\* started, exactly when no other job was queued or computing, and QUEUED
\* otherwise; the response carries the hash of the request and that status.
C14_SubmitNew ==
  [][\A r \in ProveRequests :
       (response'.op = "prove" /\ response'.req = r /\ stampStatus[hashRequest(r)] = "NONE")
         => /\ queue' = Append(queue, r)
            /\ stampStatus' = [stampStatus EXCEPT ![hashRequest(r)] =
                                 IF NoActiveJob THEN "PROVING" ELSE "QUEUED"]
            /\ proveCount' = [proveCount EXCEPT ![hashRequest(r)] =
                                 IF NoActiveJob THEN 1 ELSE 0]
            /\ stampResult' = stampResult
            /\ response'.hash = hashRequest(r)
            /\ response'.status = stampStatus'[hashRequest(r)]
            /\ response'.http = 200]_vars

\* a new request was queued behind a computing one and the response says so
C14_Witness ==
  /\ response.op = "prove" /\ response.status = "QUEUED"
  /\ Len(queue) >= 2
  /\ queue[Len(queue)] = response.req
  /\ stampStatus[response.hash] = "QUEUED"
  /\ proveCount[response.hash] = 0
  /\ stampStatus[hashRequest(queue[1])] = "PROVING"

\* ----------------------------------------------------------------------
\* C15: a submit of a request whose hash has a job, whatever its status,
\* answers with the hash and the job's current status and changes neither the
\* queue nor any job's status nor any stored result, and starts no computation.
C15_SubmitExisting ==
  [][\A r \in ProveRequests :
       (Submit(r) /\ stampStatus[hashRequest(r)] # "NONE")
         => /\ queue' = queue
            /\ stampStatus' = stampStatus
            /\ stampResult' = stampResult
            /\ proveCount' = proveCount
            /\ response'.op = "prove"
            /\ response'.hash = hashRequest(r)
            /\ response'.status = stampStatus[hashRequest(r)]]_vars

\* the request of a job that ended in ERROR was submitted again: the answer
\* is ERROR and no second computation was started
C15_Witness ==
  /\ response.op = "prove" /\ response.status = "ERROR"
  /\ stampStatus[response.hash] = "ERROR"
  /\ proveCount[response.hash] = 1
  /\ ~stampResult[response.hash].present

\* ----------------------------------------------------------------------
\* C16: a poll changes no state and answers by the status of the job:
\* COMPLETE gives 200 with the stored serialized proof of the request, ERROR
\* gives 500 with the status alone, QUEUED and PROVING give 400 with the
\* status alone; every COMPLETE job has a stored result.
C16_PollAnswers ==
  /\ [](\A r \in ProveRequests :
          stampStatus[hashRequest(r)] = "COMPLETE"
            => stampResult[hashRequest(r)] = SerializedPCD(r))
  /\ [][\A h \in Hashes :
          Poll(h) =>
            /\ UNCHANGED <<queue, stampStatus, stampResult, proveCount>>
            /\ response'.op = "status" /\ response'.hash = h
            /\ stampStatus[h] = "COMPLETE" =>
                 /\ response'.http = 200 /\ response'.status = "COMPLETE"
                 /\ response'.proof = stampResult[h].serializedPCD
                 /\ stampResult[h].present
            /\ stampStatus[h] = "ERROR" =>
                 /\ response'.http = 500 /\ response'.status = "ERROR"
                 /\ DOMAIN response' = {"op", "hash", "http", "status"}
            /\ stampStatus[h] \in {"QUEUED", "PROVING"} =>
                 /\ response'.http = 400 /\ response'.status = stampStatus[h]
                 /\ DOMAIN response' = {"op", "hash", "http", "status"}]_vars

\* a poll of a completed job returned the proof of its request
C16_Witness ==
  /\ response.op = "status" /\ response.http = 200
  /\ \E r \in ProveRequests :
       /\ hashRequest(r) = response.hash
       /\ response.proof = <<r.pcdType, r.args>>
  /\ \E h \in Hashes : stampStatus[h] = "ERROR"

\* ----------------------------------------------------------------------
\* C17: a poll of a hash that was never submitted is answered without a
\* status (400, status undefined) and changes nothing; a poll answers without
\* a status only for such a hash, so the caller tells this answer from the
\* one of a QUEUED or PROVING job.
C17_PollUnknown ==
  [][\A h \in Hashes :
       Poll(h) =>
         /\ (response'.status = "undefined") <=> (stampStatus[h] = "NONE")
         /\ stampStatus[h] = "NONE" =>
              /\ response'.http = 400
              /\ response'.status \notin StampPCDStatus
              /\ DOMAIN response' = {"op", "hash", "http", "status"}
              /\ UNCHANGED <<queue, stampStatus, stampResult, proveCount, submitted>>
         /\ stampStatus[h] \in {"QUEUED", "PROVING"} => response'.status = stampStatus[h]]_vars

\* a hash without a job was polled while other jobs were queued and proving
C17_Witness ==
  /\ response.op = "status" /\ response.status = "undefined"
  /\ stampStatus[response.hash] = "NONE"
  /\ \E h \in Hashes : stampStatus[h] = "QUEUED"
  /\ \E h \in Hashes : stampStatus[h] = "PROVING"

\* ----------------------------------------------------------------------
\* C18: handling a membership change of (u, c) to member leaves no record of
\* (u, c), whether or not there was one, leaves the record of every other pair
\* as it was, changes nothing at all when (u, c) had no record (so a second
\* handling of the event changes nothing), touches no other table and makes
\* no platform call.
C18_MemberDeletesRecord ==
  [][\A u \in UserIds, c \in ChatIds :
       ChatMember(u, c, "member") =>
         /\ <<u, c>> \notin verifications'
         /\ \A pr \in Pairs \ {<<u, c>>} : (pr \in verifications') <=> (pr \in verifications)
         /\ <<u, c>> \notin verifications => verifications' = verifications
         /\ events' = events
         /\ out'.calls = <<>>
         /\ UNCHANGED <<hv, jr, an>>]_vars

\* the event was handled for a pair without a record (as a second handling
\* finds it) while the same user keeps the record for another chat
C18_Witness ==
  /\ out.op = "member" /\ out.res = "member"
  /\ <<out.arg[1], out.arg[2]>> \notin verifications
  /\ \E c \in ChatIds \ {out.arg[2]} : <<out.arg[1], c>> \in verifications

\* ----------------------------------------------------------------------
\* C19: handleVerification for a proof that passes the verifier and the
\* watermark check and whose event has no row in telegram_bot_events (never
\* linked, or unlinked since) fails at the lookup, starts no insert and makes
\* no platform call; an unlink leaves the event without a row, a link binds it
\* to the chat of the menu; a verification that goes on resolves the event to
\* the chat bound to it at that moment.
C19_UnlinkedEventRefused ==
  /\ [](hv = Idle =>
          \A p \in LinkProofs, u \in LinkUsers, c \in GetChatResults :
            (/\ VerifyPCD(env, p) = "pcd"
             /\ p.watermark = NumberToString(u)
             /\ ~fetchTelegramEventByEventId(p.eventId).present)
              => HandleVerificationChecks(p, u, c) = "NoMatchingChat")
  /\ [][(hv = Idle /\ out' # out /\ out'.op = "verify" /\ out'.res = "NoMatchingChat")
          => hv' = Idle /\ verifications' = verifications /\ out'.calls = <<>>]_vars
  /\ [][out'.op = "press" =>
          \A c \in ChatIds, e \in MenuEvents :
            LinkMenuPress(c, e) =>
              /\ out'.res = "Unlinked" => ~events'[e].present
              /\ out'.res = "Linked" =>
                   events'[e].present /\ events'[e].telegram_chat_id = c
              /\ out'.res \in {"NotLinked", "AlreadyLinked"} => events' = events
              /\ \A e2 \in EventIds \ {e} : events'[e2] = events[e2]]_vars
  /\ [][(hv = Idle /\ hv' # Idle)
          => /\ events[hv'.pcd.eventId].present
             /\ hv'.chat = events[hv'.pcd.eventId].telegram_chat_id]_vars

\* the allowed event that was bound to chat 100 was unlinked, linked to chat
\* 200, where a verification recorded the user, and unlinked again: a good
\* proof of it has just been refused at the lookup
C19_Witness ==
  /\ env.kind = "production"
  /\ out.op = "verify" /\ out.res = "NoMatchingChat" /\ out.cause = "none"
  /\ \A e \in EventIds : eventIdIsAllowed(e) => ~events[e].present
  /\ <<7, 200>> \in verifications
  /\ hv = Idle


\* C20: recording a verification is an idempotent upsert keyed by (userId, chatId):
\* a handleVerification that reaches the insert for a pair which already has a
\* record goes on to the invite and leaves the one record of the pair in place.
\* The insert of the code is a plain insert without a conflict clause, so the
\* second insert for a pair is refused and the call fails.
C20_UpsertSucceedsAgain ==
  [][(hv # Idle /\ hv.pc = "insert" /\ <<hv.user, hv.chat>> \in verifications /\ hv' # hv)
       => /\ hv' # Idle
          /\ hv'.pc = "invite"
          /\ verifications' = verifications]_vars


C22_ForwardsToBoundChannel ==
  /\ [](an = Idle =>
          \A p \in AnonTickets, m \in Messages :
            (/\ VerifyPCD(env, p) = "pcd"
             /\ p.watermark = getMessageWatermark(m)
             /\ events[p.eventId].present
             /\ events[p.eventId].anon_chat_id # 0)
              => SendAnonymousChecks(p, m, "supergroup") = "proceed")
  /\ [][(an = Idle /\ an' # Idle)
          => /\ events[an'.pcd.eventId].present
             /\ an'.chat = events[an'.pcd.eventId].telegram_chat_id
             /\ an'.anon = events[an'.pcd.eventId].anon_chat_id
             /\ an'.anon # 0
             /\ an'.pcd.watermark = getMessageWatermark(an'.message)
             /\ out'.calls = <<[api |-> "getChat", chat |-> an'.chat]>>]_vars
  /\ [][(an # Idle /\ an' # an)
          => /\ an' = Idle
             /\ out'.op = "anon"
             /\ out'.res \in {"ok", "PlatformError"}
             /\ out'.calls = <<[api |-> "sendMessage", chat |-> an.chat,
                                message_thread_id |-> an.anon, text |-> an.message]>>]_vars

\* "hello" was forwarded to topic 7 of chat 100
C22_Witness ==
  /\ out.op = "anon" /\ out.res = "ok"
  /\ out.calls = <<[api |-> "sendMessage", chat |-> 100, message_thread_id |-> 7,
                    text |-> "hello"]>>
  /\ an = Idle


\* ----------------------------------------------------------------------
\* C23: an anonymous send whose proof passes the verifier and whose watermark
\* is the digest of the message, for an event linked to a chat without an
\* anonymous topic, fails with NoAnonChannel whatever the platform would
\* answer; a send that fails so makes no platform call, starts no forward and
\* changes no table.
C23_NoAnonChannel ==
  /\ [](an = Idle =>
          \A p \in AnonTickets, m \in Messages, c \in GetChatResults :
            (/\ VerifyPCD(env, p) = "pcd"
             /\ p.watermark = getMessageWatermark(m)
             /\ events[p.eventId].present
             /\ events[p.eventId].anon_chat_id = 0)
              => SendAnonymousChecks(p, m, c) = "NoAnonChannel")
  /\ [][(out' # out /\ out'.op = "anon" /\ out'.res = "NoAnonChannel")
          => /\ an = Idle /\ an' = Idle
             /\ out'.calls = <<>>
             /\ events' = events /\ verifications' = verifications]_vars

\* on production, a send for an allowed event whose chat has no anonymous
\* topic was refused
C23_Witness ==
  /\ out.op = "anon" /\ out.res = "NoAnonChannel" /\ out.calls = <<>>
  /\ \E e \in EventIds : /\ eventIdIsAllowed(e)
                         /\ events[e].present /\ events[e].anon_chat_id = 0
  /\ an = Idle


\* ----------------------------------------------------------------------
\* C24: an anonymous send does not depend on who holds the ticket: two
\* tickets for the same event with the same watermark get the same answer
\* from the checks, whoever their holders are; the forward is one sendMessage
\* whose only fields are the chat, the topic and the text, and what the send
\* reports is fixed by the message, the row of the event and the platform's
\* answer; a send writes no table and keeps nothing of the ticket once it
\* has ended.
C24_SenderUnlinkable ==
  /\ [](an = Idle =>
          \A p \in AnonTickets, m \in Messages, c \in GetChatResults :
            \A q \in {t \in AnonTickets : t.eventId = p.eventId /\ t.watermark = p.watermark} :
              SendAnonymousChecks(p, m, c) = SendAnonymousChecks(q, m, c))
  /\ [](out.op = "anon" /\ out.res \in {"ok", "PlatformError"} /\ out.calls # <<>>
          => /\ Len(out.calls) = 1
             /\ \/ out.calls[1].api = "getChat"
                \/ /\ DOMAIN out.calls[1] = {"api", "chat", "message_thread_id", "text"}
                   /\ out.calls[1].api = "sendMessage"
                   /\ out.calls[1].chat \in ChatIds
                   /\ out.calls[1].message_thread_id \in TopicIds
                   /\ out.calls[1].text \in Messages
                   /\ out.arg = <<out.calls[1].text>>
                   /\ out.cause = "none")
  /\ [][(an # Idle /\ an' # an) => an' = Idle]_vars
  /\ [][(out' # out /\ out'.op = "anon")
          => events' = events /\ verifications' = verifications /\ linkMenu' = linkMenu]_vars

\* "gm" was forwarded and the send has ended; the ticket is not kept
C24_Witness ==
  /\ out.op = "anon" /\ out.res = "ok"
  /\ Len(out.calls) = 1 /\ out.calls[1].api = "sendMessage" /\ out.calls[1].text = "gm"
  /\ an = Idle


\* ----------------------------------------------------------------------
\* C25: while chats are linked, unlinked and put in incognito mode, every
\* anonymous topic is held by the row of an event that is linked to a chat;
\* /incognito answers Bound only in a chat that an event is linked to; an
\* unlink removes the row of the event, its anonymous topic with it.
C25_AnonBindingHasLinkedChat ==
  /\ [](\A e \in EventIds :
          events[e].anon_chat_id # 0
            => events[e].present /\ events[e].telegram_chat_id \in ChatIds)
  /\ [][(out' # out /\ out'.op = "incognito" /\ out'.res = "Bound")
          => \E e \in EventIds : /\ events[e].present
                                 /\ events[e].telegram_chat_id = out'.arg[1]]_vars
  /\ [][(out' # out /\ out'.op = "press" /\ out'.res = "Unlinked")
          => /\ events[out'.arg[2]].present
             /\ events'[out'.arg[2]] = NoRow]_vars

\* the event whose chat had an anonymous topic has been unlinked
C25_Witness ==
  /\ out.op = "press" /\ out.res = "Unlinked"
  /\ out.arg = <<100, "3fa6164c-4785-11ee-8178-763dbf30819c">>
  /\ events["3fa6164c-4785-11ee-8178-763dbf30819c"] = NoRow
  /\ \A e \in EventIds : events[e].anon_chat_id = 0


\* ----------------------------------------------------------------------
\* C26: an event has at most one row, so at most one chat: a link button
\* pressed for an event that is linked to another chat puts the chat of the
\* menu in the place of the old one and touches no other row, whichever chats
\* the commands and presses come from; the verifier's lookup resolves an
\* event to the chat of that one row.
C26_OneBindingPerEvent ==
  /\ [](\A e \in EventIds :
          /\ events[e] \in [present : BOOLEAN, telegram_chat_id : ChatIds \cup {0},
                            anon_chat_id : TopicIds \cup {0}]
          /\ events[e].present <=> events[e].telegram_chat_id \in ChatIds
          /\ fetchTelegramEventByEventId(e) = events[e])
  /\ [][\A c \in ChatIds, e \in MenuEvents :
          (out'.op = "press" /\ out'.res = "Linked" /\ LinkMenuPress(c, e))
            => /\ events'[e].present
               /\ events'[e].telegram_chat_id = c
               /\ events'[e].anon_chat_id = events[e].anon_chat_id
               /\ \A e2 \in EventIds \ {e} : events'[e2] = events[e2]]_vars

\* an event linked to chat 100 at the start was linked again from chat 200
C26_Witness ==
  /\ out.op = "press" /\ out.res = "Linked"
  /\ out.arg = <<200, "3fa6164c-4785-11ee-8178-763dbf30819c">>
  /\ events["3fa6164c-4785-11ee-8178-763dbf30819c"].telegram_chat_id = 200


C28_FailedCheckPersistsNothing ==
  /\ [][(hv = Idle /\ hv' = Idle /\ out' # out /\ out'.op = "verify")
          => /\ out'.res \notin {"pending", "ok"}
             /\ verifications' = verifications
             /\ events' = events
             /\ \A i \in 1..Len(out'.calls) : out'.calls[i].api = "getChat"
             /\ out'.calls # <<>> <=> out'.res \in {"PlatformError", "ChatTypeError"}]_vars
  /\ [][(an = Idle /\ an' = Idle /\ out' # out /\ out'.op = "anon")
          => /\ out'.res \notin {"pending", "ok"}
             /\ verifications' = verifications
             /\ events' = events
             /\ \A i \in 1..Len(out'.calls) : out'.calls[i].api = "getChat"
             /\ out'.calls # <<>> <=> out'.res \in {"PlatformError", "ChatTypeError"}]_vars
  /\ [](out.op \in {"verify", "anon"} /\ out.res \notin {"pending", "ok", "PlatformError", "InsertConflict"}
          => /\ out.op = "verify" => hv = Idle
             /\ out.op = "anon" => an = Idle)

\* a verification failed on the type of the resolved chat while a record of
\* an earlier verification was in place
C28_Witness ==
  /\ out.op = "verify" /\ out.res = "ChatTypeError"
  /\ out.calls = <<[api |-> "getChat", chat |-> 100]>>
  /\ verifications # {}
  /\ hv = Idle


C30_PlatformFailureKeepsRecords ==
  /\ [][(hv = Idle /\ hv' = Idle /\ out' # out /\ out'.op = "verify"
           /\ out'.res = "PlatformError")
          => verifications' = verifications]_vars
  /\ [][(hv # Idle /\ hv.pc = "invite" /\ hv' = Idle /\ out'.res = "PlatformError")
          => <<hv.user, hv.chat>> \notin verifications']_vars
  /\ [][(jr # Idle /\ jr' = Idle /\ out'.op = "join" /\ out'.res = "PlatformError")
          => verifications' = verifications]_vars


\* ----------------------------------------------------------------------
\* how far a status is along QUEUED, PROVING, COMPLETE or ERROR; 0 for a hash
\* without a job, and for the status reported for one
StatusRank(status) ==
  IF status = "QUEUED" THEN 1
  ELSE IF status = "PROVING" THEN 2
  ELSE IF status \in {"COMPLETE", "ERROR"} THEN 3
  ELSE 0

\* C31: the status of a hash never moves back: each step leaves it or takes
\* it one or more places forward along QUEUED, PROVING, COMPLETE or ERROR; a
\* COMPLETE or ERROR status stays what it is; an entry is never removed; a
\* poll reports the status the map holds, and a response about a hash never
\* reports an earlier status than the response before it did about the same
\* hash.
C31_StatusNeverRegresses ==
  /\ [][\A h \in Hashes :
          /\ StatusRank(stampStatus'[h]) >= StatusRank(stampStatus[h])
          /\ stampStatus[h] \in {"COMPLETE", "ERROR"} => stampStatus'[h] = stampStatus[h]
          /\ stampStatus[h] # "NONE" => stampStatus'[h] # "NONE"
          /\ (stampStatus[h] = "NONE" /\ stampStatus'[h] # "NONE")
               => stampStatus'[h] \in {"QUEUED", "PROVING"}
          /\ (stampStatus[h] = "QUEUED" /\ stampStatus'[h] # "QUEUED")
               => stampStatus'[h] = "PROVING"]_vars
  /\ [][\A h \in Hashes :
          Poll(h) => StatusRank(response'.status) = StatusRank(stampStatus[h])]_vars
  /\ [][(response.op # "none" /\ response'.op # "none" /\ response'.hash = response.hash)
          => StatusRank(response'.status) >= StatusRank(response.status)]_vars

\* a poll saw a hash COMPLETE that an earlier response had reported QUEUED or
\* PROVING, while another hash waits
C31_Witness ==
  /\ response.op = "status" /\ response.status = "COMPLETE"
  /\ stampStatus[response.hash] = "COMPLETE"
  /\ \E h \in Hashes : stampStatus[h] = "QUEUED"
  /\ \E h \in Hashes : stampStatus[h] = "ERROR"


\* ----------------------------------------------------------------------
\* C32: link and unlink are admin actions: when the user who sends /link or
\* /unlink, or who presses a button of the events menu, is no administrator
\* of the chat, no row of the events table is inserted, changed or deleted.
\* The handlers test whether the bot is an administrator and never look at
\* the sender, so this does not hold.
C32_OnlyAdminsChangeBindings ==
  [][(out' # out /\ out'.op \in {"link", "unlink", "press"}
        /\ out'.cause = "SenderNotAdmin")
       => events' = events]_vars



\* ----------------------------------------------------------------------
\* C33: a chat has at most one anonymous channel, the topic of a row is never
\* replaced by another topic once it is set, and of two /incognito commands
\* sent one after the other in the same chat from different topics at most
\* one is answered with success. The first two parts hold; the third does
\* not: the insert of /incognito drops the topic, so the guard of the second
\* command finds no anonymous channel and the command is answered like the
\* first.
C33_OneBindWins ==
  /\ [](\A c \in ChatIds :
          Cardinality({events[e].anon_chat_id :
                         e \in {x \in fetchTelegramEventsByChatId(c) :
                                  events[x].anon_chat_id # 0}}) <= 1)
  /\ [][\A e \in EventIds :
          (events[e].present /\ events[e].anon_chat_id # 0 /\ events'[e].present)
            => events'[e].anon_chat_id = events[e].anon_chat_id]_vars
  /\ [][(/\ out.op = "incognito" /\ out.res = "Bound"
         /\ out'.op = "incognito" /\ out' # out
         /\ out'.arg[1] = out.arg[1])
          => out'.res # "Bound"]_vars



\* ----------------------------------------------------------------------
\* C34: the mode of the events menu belongs to the command that opened it: a
\* button pressed in a chat whose menu message was sent by /link answers
\* Linked or AlreadyLinked and removes no row, and a button pressed in a chat
\* whose menu message was sent by /unlink answers Unlinked or NotLinked and
\* adds or changes no row, whatever commands were sent in between. The mode is
\* held in one closure that every command replaces, so this does not hold.
C34_MenuKeepsItsMode ==
  [][\A s \in ChatSenders, c \in ChatIds, e \in MenuEvents :
       LinkMenuPressFrom(s, c, e)
         => /\ linkMenu.options[c] = "link"
                 => /\ out'.res \in {"Linked", "AlreadyLinked"}
                    /\ \A x \in EventIds : events[x].present => events'[x].present
            /\ linkMenu.options[c] = "unlink"
                 => /\ out'.res \in {"Unlinked", "NotLinked"}
                    /\ \A x \in EventIds :
                         events'[x].present => events'[x] = events[x]]_vars



\* ----------------------------------------------------------------------
\* C35: an anonymous message is forwarded only to a topic of the chat that
\* the topic was bound in: every sendMessage of an anonymous send goes to a
\* (chat, topic) pair that the events table held as the anonymous channel of
\* that chat when the service started (no command under src adds another).
\* Linking an event to another chat keeps the anon_chat_id of its row, so the
\* topic of the old chat is used in the new one and this does not hold.
C35_TopicStaysWithItsChat ==
  out.op = "anon"
    => \A i \in 1..Len(out.calls) :
         (out.calls[i].api = "sendMessage" /\ out.calls[i].message_thread_id # 0)
           => \E t \in InitEventTables, e \in EventIds :
                /\ t[e].present
                /\ t[e].telegram_chat_id = out.calls[i].chat
                /\ t[e].anon_chat_id = out.calls[i].message_thread_id



====
